---- MODULE Spec2Model ----
(***************************************************************************)
(* Model of src/streamlit/cortex_analyst_demo.py: the Streamlit chat loop  *)
(* around SNOWFLAKE.CORTEX.ANALYST.                                        *)
(*                                                                         *)
(* The script is run top to bottom once per widget event.  A run is cut    *)
(* into steps at the places where its state can be observed:               *)
(*   Idle           no run in progress, the page waits for an event        *)
(*   Running        a run has started, the widgets are not yet evaluated   *)
(*   AwaitingInput  widgets evaluated, the script is at line 233           *)
(*   Requesting     user turn appended (line 242), call not yet issued     *)
(*   Calling        session.sql(...).collect() outstanding (line 127)      *)
(*   Displaying     collect() has returned or raised, script at line 129   *)
(* Runs are taken one at a time: an event is delivered only when no run is *)
(* in progress.                                                            *)
(***************************************************************************)
EXTENDS Integers, Sequences, FiniteSets, TLC

\* Accepted inputs per transcript (between two clears) explored by the model.
MaxTurns == 2

\* src line 29.  Defined by the script and used nowhere in it.
API_TIMEOUT == 30000

\* src line 43.
default_semantic_model == "@cortex_analyst_demo.revenue_timeseries.raw_data/revenue_timeseries.yaml"

\* What the user may have in the "Semantic Model Path" text box.
ModelPaths == {default_semantic_model, "", "@demo.schema/model.yaml"}

\* src lines 58-69 (one of the ten buttons; they all run the same line 73).
sample_questions == {"What questions can I ask?"}

\* Texts submitted through st.chat_input (never empty: line 233 tests truthiness).
TypedInputs == {"q1"}

\* A JSON field that is not present in the reply object.
Absent == "<absent>"

\* A reply object with none of the three fields.
NoFields == [message |-> Absent, sql |-> Absent, suggestions |-> <<>>]

\* JSON objects the service may answer with (suggestions absent or [] are both <<>>).
Replies ==
    { NoFields,
      [message |-> "", sql |-> "", suggestions |-> <<>>],
      [message |-> "Total revenue was $1.2M", sql |-> "SELECT SUM(revenue) ...", suggestions |-> <<>>],
      [message |-> "m", sql |-> Absent, suggestions |-> <<"s1", "s2">>],
      [message |-> Absent, sql |-> "SELECT 1", suggestions |-> <<"s1">>],
      [message |-> "m", sql |-> Absent, suggestions |-> <<"s2", "s2">>] }

\* What session.sql(sql_query).collect() can do (lines 127-131): raise, return no
\* row, or return a row whose RESPONSE column is some text.
Results ==
    { [kind |-> "raise", json |-> "", value |-> NoFields],
      [kind |-> "norows", json |-> "", value |-> NoFields],
      [kind |-> "row", json |-> "malformed", value |-> NoFields],
      [kind |-> "row", json |-> "null", value |-> NoFields] }
    \cup { [kind |-> "row", json |-> "object", value |-> v] : v \in Replies }

NoResult == [kind |-> "none", json |-> "", value |-> NoFields]

NoEvent == [kind |-> "none", value |-> ""]

\* A transcript content that is a Python str, as the pieces the f-strings join.
StrContent(pieces) == [kind |-> "str", text |-> pieces, fields |-> NoFields]

\* A transcript content that is a Python dict (the decoded reply).
DictContent(d) == [kind |-> "dict", text |-> <<>>, fields |-> d]

Turn(role, content) == [role |-> role, content |-> content]

Last(s) == s[Len(s)]

Range(s) == {s[i] : i \in 1..Len(s)}

VARIABLES
    messages,                      \* st.session_state.messages
    user_input,                    \* st.session_state.user_input
    selected_semantic_model_path,  \* st.session_state.selected_semantic_model_path
    semantic_model_path,           \* value of the sidebar text_input (line 44)
    chat_input,                    \* value st.chat_input returned in this run (line 227)
    pc,                            \* position of the script
    event,                         \* the widget event that started the current run
    request,                       \* what the last sql_query carried (lines 119-124)
    result,                        \* outcome of the last collect() (line 127)
    elapsed,                       \* ms the outstanding call is known to have taken
    accepted,                      \* inputs accepted since the transcript was last empty
    calls,                         \* remote calls issued for the current input
    inFlight                       \* calls issued and not yet returned

vars == <<messages, user_input, selected_semantic_model_path, semantic_model_path,
          chat_input, pc, event, request, result, elapsed, accepted, calls, inFlight>>

NotSet == "<not in session_state>"

\* Session start: session_state is empty, the first run is about to begin.
Init ==
    /\ messages = <<>>
    /\ user_input = ""
    /\ selected_semantic_model_path = NotSet
    /\ semantic_model_path = default_semantic_model
    /\ chat_input = ""
    /\ pc = "Running"
    /\ event = NoEvent
    /\ request = [messages |-> <<>>, semantic_model_file |-> NotSet]
    /\ result = NoResult
    /\ elapsed = 0
    /\ accepted = 0
    /\ calls = 0
    /\ inFlight = 0

----
\* Pure parts of the script.

\* Truthiness of the sql / suggestions fields as display_response tests them.
HasSql(d) == d.sql \notin {Absent, ""}

\* Keys of the widgets display_response creates for a reply (lines 169, 208).
WidgetKeys(d) ==
    (IF HasSql(d) THEN {<<"execute_sql", "">>} ELSE {})
        \cup {<<"suggestion", s>> : s \in Range(d.suggestions)}

\* Keys already created by the history loop of this run (lines 215-224).
HistoryKeys(msgs) ==
    UNION { WidgetKeys(msgs[i].content.fields) :
              i \in {j \in 1..Len(msgs) : msgs[j].role = "assistant"
                                          /\ msgs[j].content.kind = "dict"} }

\* Suggestions offered as buttons by the turns of the transcript (lines 205-209).
Suggested(msgs) ==
    UNION { Range(msgs[i].content.fields.suggestions) :
              i \in {j \in 1..Len(msgs) : msgs[j].role = "assistant"
                                          /\ msgs[j].content.kind = "dict"} }

HasDuplicates(s) == \E i, j \in 1..Len(s) : i < j /\ s[i] = s[j]

\* json.loads(response_str), line 131.
JsonLoads(res) ==
    IF res.json = "malformed" THEN [ok |-> FALSE, type |-> "none", value |-> NoFields]
    ELSE [ok |-> TRUE, type |-> res.json, value |-> res.value]

\* The except branch of get_analyst_response, lines 136-151.
error_msg(e) == <<"An error occurred while calling Cortex Analyst", e>>

\* A variant that rejects a decoded reply whose three fields are all absent or empty.
get_analyst_response_EmptyReply(res) ==
    IF res.kind = "raise"
    THEN [response |-> [type |-> "object", value |-> NoFields],
          error |-> error_msg("SnowparkSQLException")]
    ELSE IF res.kind = "norows"
    THEN [response |-> [type |-> "object", value |-> NoFields],
          error |-> <<"No response received from Cortex Analyst">>]
    ELSE IF ~JsonLoads(res).ok
    THEN [response |-> [type |-> "object", value |-> NoFields],
          error |-> error_msg("JSONDecodeError")]
    ELSE IF /\ JsonLoads(res).value.message \in {Absent, ""}
            /\ JsonLoads(res).value.sql \in {Absent, ""}
            /\ JsonLoads(res).value.suggestions = <<>>
    THEN [response |-> [type |-> "object", value |-> NoFields],
          error |-> <<"EmptyReply">>]
    ELSE [response |-> [type |-> JsonLoads(res).type, value |-> JsonLoads(res).value],
          error |-> <<>>]

\* get_analyst_response from the outcome of collect() on: lines 129-151.
\* error = <<>> stands for None.
get_analyst_response(res) ==
    IF res.kind = "raise"
    THEN [response |-> [type |-> "object", value |-> NoFields],
          error |-> error_msg("SnowparkSQLException")]
    ELSE IF res.kind = "norows"
    THEN [response |-> [type |-> "object", value |-> NoFields],
          error |-> <<"No response received from Cortex Analyst">>]
    ELSE IF ~JsonLoads(res).ok
    THEN [response |-> [type |-> "object", value |-> NoFields],
          error |-> error_msg("JSONDecodeError")]
    ELSE [response |-> [type |-> JsonLoads(res).type, value |-> JsonLoads(res).value],
          error |-> <<>>]

\* The exception display_response(response) ends with at line 263, "" for none:
\* `"message" in response` on a non-container, or a widget key used twice in the run.
display_response_raises(response, rendered) ==
    IF response.type # "object" THEN "TypeError"
    ELSE IF WidgetKeys(response.value) \cap rendered # {}
            \/ HasDuplicates(response.value.suggestions)
    THEN "DuplicateWidgetID"
    ELSE ""

\* The assistant turn lines 254-277 append for an outcome of collect().
AssistantTurn(res, msgs) ==
    LET r == get_analyst_response(res)
        exc == display_response_raises(r.response, HistoryKeys(msgs))
    IN  IF r.error # <<>>
        THEN Turn("assistant", StrContent(<<"Error: ">> \o r.error))
        ELSE IF exc # ""
        THEN Turn("assistant", StrContent(<<"Unexpected error: ", exc>>))
        ELSE Turn("assistant", DictContent(r.response.value))

\* Line 235.
current_input == IF chat_input # "" THEN chat_input ELSE user_input

----
\* Steps.

\* The events the page offers while it waits.
Events ==
    {[kind |-> "chat_input", value |-> q] : q \in TypedInputs}
    \cup {[kind |-> "sample", value |-> q] : q \in sample_questions}
    \cup {[kind |-> "suggestion", value |-> s] : s \in Suggested(messages)}
    \cup {[kind |-> "text_input", value |-> p] : p \in ModelPaths \ {semantic_model_path}}
    \cup (IF messages # <<>> THEN {[kind |-> "clear", value |-> ""]} ELSE {})

IsInput(e) == e.kind \in {"chat_input", "sample", "suggestion"}

\* A variant in which an event starts a run while another run is still going.
UserEvent_AnyTime(e) ==
    /\ e \in Events
    /\ IsInput(e) => accepted < MaxTurns
    /\ pc' = "Running"
    /\ event' = e
    /\ UNCHANGED <<messages, user_input, selected_semantic_model_path,
                   semantic_model_path, chat_input, request, result, elapsed,
                   accepted, calls, inFlight>>

\* The user acts on a widget and a run of the script starts.  The script is one
\* thread of control: the next run starts when the current one has ended.
UserEvent(e) ==
    /\ pc = "Idle"
    /\ e \in Events
    /\ IsInput(e) => accepted < MaxTurns
    /\ pc' = "Running"
    /\ event' = e
    /\ UNCHANGED <<messages, user_input, selected_semantic_model_path,
                   semantic_model_path, chat_input, request, result, elapsed,
                   accepted, calls, inFlight>>

\* Lines 39-99 and 215-230: the widgets are evaluated in script order.
RunWidgets ==
    /\ pc = "Running"
    /\ semantic_model_path' =
          IF event.kind = "text_input" THEN event.value ELSE semantic_model_path
    /\ selected_semantic_model_path' =
          IF selected_semantic_model_path = NotSet
          THEN semantic_model_path'
          ELSE selected_semantic_model_path
    /\ user_input' =
          IF event.kind \in {"sample", "suggestion"} THEN event.value ELSE user_input
    /\ chat_input' = IF event.kind = "chat_input" THEN event.value ELSE ""
    /\ pc' = "AwaitingInput"
    /\ UNCHANGED <<messages, event, request, result, elapsed, accepted, calls,
                   inFlight>>

\* A variant without lines 238-239: the pending input is not cleared.
HandleInput_KeepPending ==
    /\ pc = "AwaitingInput"
    /\ chat_input # "" \/ user_input # ""
    /\ messages' = Append(messages, Turn("user", StrContent(<<current_input>>)))
    /\ accepted' = accepted + 1
    /\ calls' = 0
    /\ elapsed' = 0
    /\ pc' = "Requesting"
    /\ UNCHANGED <<user_input, selected_semantic_model_path, semantic_model_path,
                   chat_input, event, request, result, inFlight>>

\* Lines 233-246.
HandleInput ==
    /\ pc = "AwaitingInput"
    /\ chat_input # "" \/ user_input # ""
    /\ user_input' = ""
    /\ messages' = Append(messages, Turn("user", StrContent(<<current_input>>)))
    /\ accepted' = accepted + 1
    /\ calls' = 0
    /\ elapsed' = 0
    /\ pc' = "Requesting"
    /\ UNCHANGED <<selected_semantic_model_path, semantic_model_path, chat_input,
                   event, request, result, inFlight>>

\* A variant that sends the current question without the history before it.
SendRequest_OnlyLast ==
    /\ pc = "Requesting"
    /\ request' = [messages |-> <<Last(messages)>>,
                   semantic_model_file |-> selected_semantic_model_path]
    /\ calls' = calls + 1
    /\ inFlight' = inFlight + 1
    /\ pc' = "Calling"
    /\ UNCHANGED <<messages, user_input, selected_semantic_model_path,
                   semantic_model_path, chat_input, event, result, elapsed, accepted>>

\* Lines 252, 113-127: the statement is built and handed to session.sql().collect().
SendRequest ==
    /\ pc = "Requesting"
    /\ request' = [messages |-> messages,
                   semantic_model_file |-> selected_semantic_model_path]
    /\ calls' = calls + 1
    /\ inFlight' = inFlight + 1
    /\ pc' = "Calling"
    /\ UNCHANGED <<messages, user_input, selected_semantic_model_path,
                   semantic_model_path, chat_input, event, result, elapsed, accepted>>

\* API_TIMEOUT ms pass without an answer.  No line of the script reads
\* API_TIMEOUT, so nothing but the clock moves.
TimeoutElapses ==
    /\ pc = "Calling"
    /\ elapsed < API_TIMEOUT
    /\ elapsed' = API_TIMEOUT
    /\ UNCHANGED <<messages, user_input, selected_semantic_model_path,
                   semantic_model_path, chat_input, pc, event, request, result,
                   accepted, calls, inFlight>>

\* collect() returns or raises (line 127).
RemoteReturns(res) ==
    /\ pc = "Calling"
    /\ result' = res
    /\ inFlight' = inFlight - 1
    /\ pc' = "Displaying"
    /\ UNCHANGED <<messages, user_input, selected_semantic_model_path,
                   semantic_model_path, chat_input, event, request, elapsed,
                   accepted, calls>>

\* A variant without lines 257-260: a failed call leaves no assistant turn.
Display_NoErrorTurn ==
    /\ pc = "Displaying"
    /\ messages' = IF get_analyst_response(result).error # <<>>
                   THEN messages
                   ELSE Append(messages, AssistantTurn(result, messages))
    /\ pc' = "Idle"
    /\ UNCHANGED <<user_input, selected_semantic_model_path, semantic_model_path,
                   chat_input, event, request, result, elapsed, accepted, calls,
                   inFlight>>

\* A variant that issues the call again when it has failed.
Display_RetryOnError ==
    /\ pc = "Displaying"
    /\ IF result.kind = "raise" /\ calls < 2
       THEN messages' = messages /\ pc' = "Requesting"
       ELSE messages' = Append(messages, AssistantTurn(result, messages)) /\ pc' = "Idle"
    /\ UNCHANGED <<user_input, selected_semantic_model_path, semantic_model_path,
                   chat_input, event, request, result, elapsed, accepted, calls,
                   inFlight>>

\* Lines 129-151 and 254-277, then the rest of the script (the clear button of
\* line 281 was not the event of this run).
Display ==
    /\ pc = "Displaying"
    /\ messages' = Append(messages, AssistantTurn(result, messages))
    /\ pc' = "Idle"
    /\ UNCHANGED <<user_input, selected_semantic_model_path, semantic_model_path,
                   chat_input, event, request, result, elapsed, accepted, calls,
                   inFlight>>

\* A variant that removes the last exchange only.
ClearChat_DropLast ==
    /\ pc = "AwaitingInput"
    /\ chat_input = "" /\ user_input = ""
    /\ event.kind = "clear" /\ messages # <<>>
    /\ messages' = SubSeq(messages, 1, Len(messages) - 2)
    /\ accepted' = accepted - 1
    /\ pc' = "Running"
    /\ event' = [kind |-> "rerun", value |-> ""]
    /\ UNCHANGED <<user_input, selected_semantic_model_path, semantic_model_path,
                   chat_input, request, result, elapsed, calls, inFlight>>

\* Lines 279-283: the clear button was pressed; st.rerun() starts a fresh run.
ClearChat ==
    /\ pc = "AwaitingInput"
    /\ chat_input = "" /\ user_input = ""
    /\ event.kind = "clear" /\ messages # <<>>
    /\ messages' = <<>>
    /\ accepted' = 0
    /\ pc' = "Running"
    /\ event' = [kind |-> "rerun", value |-> ""]
    /\ UNCHANGED <<user_input, selected_semantic_model_path, semantic_model_path,
                   chat_input, request, result, elapsed, calls, inFlight>>

\* A run with no input and no clear falls through to the end of the script.
FinishRun ==
    /\ pc = "AwaitingInput"
    /\ chat_input = "" /\ user_input = ""
    /\ ~(event.kind = "clear" /\ messages # <<>>)
    /\ pc' = "Idle"
    /\ UNCHANGED <<messages, user_input, selected_semantic_model_path,
                   semantic_model_path, chat_input, event, request, result,
                   elapsed, accepted, calls, inFlight>>

Next ==
    \/ \E e \in Events : UserEvent(e)
    \/ RunWidgets
    \/ HandleInput
    \/ SendRequest
    \/ TimeoutElapses
    \/ \E res \in Results : RemoteReturns(res)
    \/ Display
    \/ ClearChat
    \/ FinishRun

Spec == Init /\ [][Next]_vars

----
\* Properties.

IsPrefix(s, t) == Len(s) <= Len(t) /\ SubSeq(t, 1, Len(s)) = s

Busy == pc \in {"Requesting", "Calling", "Displaying"}

IsErrorTurn(t) == t.role = "assistant" /\ t.content.kind = "str"

IsReplyTurn(t) == t.role = "assistant" /\ t.content.kind = "dict"

IsEmptyReply(d) ==
    d.message \in {Absent, ""} /\ d.sql \in {Absent, ""} /\ d.suggestions = <<>>

CallFailed(res) == res.kind = "raise" \/ (res.kind = "row" /\ res.json = "malformed")

\* C1: whenever the loop is back in Idle after N accepted inputs (no clear in
\* between) the transcript holds exactly 2N turns, alternately one user turn and
\* one assistant turn; when the call or the decoding of its reply failed, the
\* assistant turn of that input is an error-text turn.
C1_TwoTurnsPerInput ==
    pc = "Idle" =>
        /\ Len(messages) = 2 * accepted
        /\ \A i \in 1..Len(messages) :
              messages[i].role = IF i % 2 = 1 THEN "user" ELSE "assistant"
        /\ (messages # <<>> /\ CallFailed(result)) => IsErrorTurn(Last(messages))

\* Two inputs accepted, the first call failed, the second was answered.
C1_Witness ==
    /\ pc = "Idle"
    /\ accepted = 2
    /\ Len(messages) = 4
    /\ IsErrorTurn(messages[2])
    /\ IsReplyTurn(messages[4])

\* C2 (as stated): with an empty configuration string, an accepted input leads to
\* no remote call, and its assistant turn is an error-text turn.
C2_EmptyConfigNeverCalls ==
    semantic_model_path = "" =>
        /\ Busy => calls = 0
        /\ (pc = "Idle" /\ IsInput(event) /\ messages # <<>>) =>
              (calls = 0 /\ IsErrorTurn(Last(messages)))

C4_TimeoutTurn ==
    (pc = "Idle" /\ messages # <<>> /\ elapsed >= API_TIMEOUT) =>
        /\ Len(messages) = 2 * accepted
        /\ IsErrorTurn(Last(messages))
        /\ "Timeout" \in Range(Last(messages).content.text)

\* C5: a selected sample question or suggestion becomes the pending input; the
\* next turn appended is a user turn whose content is exactly that text, and the
\* pending input is empty from then on.
C5_SelectionBecomesUserTurn ==
    [][/\ (pc = "Running" /\ event.kind \in {"sample", "suggestion"}) =>
              user_input' = event.value
       /\ (pc = "AwaitingInput" /\ user_input # "") =>
              /\ messages' = Append(messages, Turn("user", StrContent(<<user_input>>)))
              /\ user_input' = ""
       /\ (event.kind = "suggestion" /\ pc = "Running") =>
              event.value \in Suggested(messages)
       /\ pc' \in {"Requesting", "Calling", "Displaying", "Idle"} => user_input' = ""
      ]_vars

\* A suggestion of an earlier assistant turn has just become the third turn.
C5_Witness ==
    /\ pc = "Requesting"
    /\ event.kind = "suggestion"
    /\ Len(messages) = 3
    /\ event.value \in Range(messages[2].content.fields.suggestions)
    /\ Last(messages) = Turn("user", StrContent(<<event.value>>))
    /\ user_input = ""

\* C6 (as stated): a request sent after the user edited the configuration string
\* carries the edited value.
C6_RequestCarriesEditedPath ==
    (pc \in {"Calling", "Displaying"} /\ semantic_model_path # "") =>
        request.semantic_model_file = semantic_model_path

\* C7: the clear step empties the transcript whatever its size; every other step
\* leaves the old transcript as a prefix of the new one.
C7_ClearEmpties_OthersExtend ==
    [][IF pc = "AwaitingInput" /\ event.kind = "clear" /\ user_input = "" /\ chat_input = ""
       THEN messages' = <<>>
       ELSE IsPrefix(messages, messages')
      ]_vars

\* The clear button was pressed on a transcript of at least four turns.
C7_Witness ==
    /\ pc = "Running"
    /\ event.kind = "rerun"
    /\ messages = <<>>
    /\ Len(request.messages) >= 3

\* C8: the user turn is in the transcript before the call is issued, and the
\* turn list sent is the whole transcript of that moment, in order, ending with
\* the new user turn.
C8_RequestIsWholeTranscript ==
    /\ pc = "Requesting" =>
          (calls = 0 /\ Last(messages) = Turn("user", StrContent(<<event.value>>)))
    /\ pc \in {"Calling", "Displaying"} =>
          /\ request.messages = messages
          /\ Len(request.messages) = 2 * accepted - 1
          /\ Last(request.messages) = Turn("user", StrContent(<<event.value>>))

\* A request in flight that carries an earlier error-text turn.
C8_Witness ==
    /\ pc = "Calling"
    /\ Len(request.messages) = 3
    /\ IsErrorTurn(request.messages[2])
    /\ request.messages = messages

C10_OneCallNoRetry ==
    [][/\ calls' <= 1
       /\ (pc = "Displaying" /\ result.kind = "raise") =>
              /\ pc' = "Idle"
              /\ calls' = 1
              /\ messages' = Append(messages, Turn("assistant",
                    StrContent(<<"Error: ">> \o error_msg("SnowparkSQLException"))))
       /\ pc \in {"Requesting", "Calling"} => messages' = messages
      ]_vars

\* A failed call has ended as an error turn after exactly one call.
C10_Witness ==
    /\ pc = "Idle"
    /\ result.kind = "raise"
    /\ calls = 1
    /\ Len(messages) = 2
    /\ IsErrorTurn(Last(messages))

====
